---- MODULE Spec2Model ----
(***************************************************************************)
(* A model of Packet++/header/TLVData.h: the TLVRecord view and the        *)
(* TLVRecordReader that walks, searches and counts the records packed in a *)
(* caller's byte buffer.                                                    *)
(*                                                                         *)
(* Memory is a flat address space.  Address NULL is the null pointer, the  *)
(* caller's TLV bytes live at BufBase .. BufBase + Len(buf) - 1, and a     *)
(* TLVRecord is its m_Data pointer.  A read of an address that holds none  *)
(* of the caller's bytes is undefined in C++; it yields an arbitrary byte  *)
(* ub, chosen anew by every call.                                          *)
(*                                                                         *)
(* Widths are scaled: `int` has IntBits bits and size_t has SizeBits bits  *)
(* (32 and 64 in the build), and a byte holds 0 .. MaxByte.  The casts and *)
(* the wrap-around behave at these widths as they do at the real ones.     *)
(***************************************************************************)
EXTENDS Integers, Sequences, FiniteSets

VARIABLES buf, policy, m_RecordCount, pc, last, sinceCount

vars == <<buf, policy, m_RecordCount, pc, last, sinceCount>>

(***************************************************************************)
(* Bounds of the model.                                                    *)
(***************************************************************************)
MaxLen == 4
MaxByte == 1
IntBits == 4
SizeBits == 8
MaxDelta == 1
BufBase == 2
MaxSizeofT == 2

\* the greatest value length of a record a caller inserts
MaxValueLen == 1

Byte == 0 .. MaxByte
ByteMod == MaxByte + 1
IntMod == 2 ^ IntBits
SizeMod == 2 ^ SizeBits

RECURSIVE SeqsOfLen(_)
SeqsOfLen(n) ==
    IF n = 0 THEN {<<>>}
    ELSE {Append(s, b) : s \in SeqsOfLen(n - 1), b \in Byte}

Buffers == UNION {SeqsOfLen(n) : n \in 0 .. MaxLen}

\* the least length whose (int) cast is negative, and byte streams of that
\* length: a first record header followed by zero bytes
HugeLen == IntMod \div 2

HugeBuffers ==
    {s \o [i \in 1 .. HugeLen - 2 |-> 0] : s \in SeqsOfLen(2)}

(***************************************************************************)
(* The length policies of the record variants: the total size of a record  *)
(* as a function of its recordLen byte.                                    *)
(***************************************************************************)
Policies == {"HeaderExcluded", "HeaderIncluded"}

(***************************************************************************)
(* Pointers, casts and memory.                                             *)
(***************************************************************************)
NULL == 0

\* (size_t)-1, the value the constructor stores for "not counted yet"
NoCount == SizeMod - 1

\* (int)x for a size_t x: truncation to IntBits bits, two's complement
ToInt(x) ==
    LET m == x % IntMod
    IN  IF m >= IntMod \div 2 THEN m - IntMod ELSE m

\* the byte at address a; ub where a holds none of the caller's bytes
ReadByte(a, ub) ==
    IF a >= BufBase /\ a < BufBase + Len(buf)
    THEN buf[a - BufBase + 1]
    ELSE ub

\* whether address a lies in the byte stream [base, base + len) of a call
InStream(a, base, len) == base # NULL /\ a >= base /\ a < base + len

(***************************************************************************)
(* TLVRecord                                                               *)
(***************************************************************************)
TLVRecord(recordRawData) ==
    IF recordRawData = NULL THEN NULL ELSE recordRawData

isNull(rec) == rec = NULL

getRecordBasePtr(rec) == rec

\* m_Data->recordType
getType(rec, ub) == ReadByte(rec, ub)

\* m_Data->recordLen
recordLen(rec, ub) == ReadByte(rec + 1, ub)

\* the pure virtual getTotalSize(), as the record variants implement it
getTotalSize(rec, ub) ==
    IF policy = "HeaderExcluded"
    THEN 2 + recordLen(rec, ub)
    ELSE recordLen(rec, ub)

\* the addresses getTotalSize() reads
TotalSizeReads(rec) == {rec + 1}

\* the pure virtual getDataSize(), as the record variants implement it, in
\* size_t arithmetic
getDataSize(rec, ub) ==
    IF policy = "HeaderExcluded"
    THEN recordLen(rec, ub)
    ELSE (recordLen(rec, ub) - 2) % SizeMod

\* the addresses getDataSize() reads
DataSizeReads(rec) == {rec + 1}

\* the address of m_Data->recordValue[i]
recordValue(rec, i) == rec + 2 + i

\* memcpy(&result, m_Data->recordValue, n): the n bytes read as one number
\* in host (little-endian) order
RECURSIVE memcpyValue(_, _, _)
memcpyValue(rec, n, ub) ==
    IF n = 0 THEN 0
    ELSE memcpyValue(rec, n - 1, ub)
           + ReadByte(recordValue(rec, n - 1), ub) * ByteMod ^ (n - 1)

\* getValueAs<T>() without the test of getDataSize()
getValueAs_NoSizeCheck(rec, sizeofT, ub) ==
    [ret |-> memcpyValue(rec, sizeofT, ub),
     reads |-> {recordValue(rec, i) : i \in 0 .. sizeofT - 1}]

\* getValueAs<T>() for a T of sizeofT bytes: the value returned and the
\* addresses read
getValueAs(rec, sizeofT, ub) ==
    IF getDataSize(rec, ub) < sizeofT
    THEN [ret |-> 0, reads |-> DataSizeReads(rec)]
    ELSE [ret |-> memcpyValue(rec, sizeofT, ub),
          reads |-> DataSizeReads(rec)
                      \cup {recordValue(rec, i) : i \in 0 .. sizeofT - 1}]

(***************************************************************************)
(* TLVRecordBuilder                                                        *)
(***************************************************************************)
\* the conversion of a length to the uint8_t parameter recValueLen
ToUint8(x) == x % ByteMod

\* init(recType, recValue, recValueLen): the members it sets; m_RecValue is
\* an allocation of allocated bytes
TLVRecordBuilder_init(recType, recValueLen) ==
    [m_RecType |-> recType, m_RecValueLen |-> recValueLen,
     allocated |-> recValueLen, error |-> ""]

\* TLVRecordBuilder(uint8_t recType, const uint8_t* recValue,
\* uint8_t recValueLen), called with a value of valueLen bytes
TLVRecordBuilder(recType, valueLen) ==
    TLVRecordBuilder_init(recType, ToUint8(valueLen))

(***************************************************************************)
(* TLVRecordReader                                                         *)
(***************************************************************************)
\* getFirstTLVRecord without the test for an empty stream
getFirstTLVRecord_NoLenCheck(tlvDataBasePtr, tlvDataLen) ==
    TLVRecord(tlvDataBasePtr)

getFirstTLVRecord(tlvDataBasePtr, tlvDataLen) ==
    IF tlvDataLen = 0
    THEN TLVRecord(NULL)
    ELSE TLVRecord(tlvDataBasePtr)

\* getNextTLVRecord with the end-of-stream test off by one: > for >=
getNextTLVRecord_PastEnd(rec, tlvDataBasePtr, tlvDataLen, ub) ==
    IF isNull(rec)
    THEN TLVRecord(NULL)
    ELSE IF getRecordBasePtr(rec) - tlvDataBasePtr < 0
    THEN TLVRecord(NULL)
    ELSE IF getRecordBasePtr(rec) - tlvDataBasePtr + ToInt(getTotalSize(rec, ub))
                > ToInt(tlvDataLen)
    THEN TLVRecord(NULL)
    ELSE TLVRecord(getRecordBasePtr(rec) + getTotalSize(rec, ub))

\* getNextTLVRecord without the test for a record that precedes the stream
getNextTLVRecord_NoLowerTest(rec, tlvDataBasePtr, tlvDataLen, ub) ==
    IF isNull(rec)
    THEN TLVRecord(NULL)
    ELSE IF getRecordBasePtr(rec) - tlvDataBasePtr + ToInt(getTotalSize(rec, ub))
                >= ToInt(tlvDataLen)
    THEN TLVRecord(NULL)
    ELSE TLVRecord(getRecordBasePtr(rec) + getTotalSize(rec, ub))

getNextTLVRecord(rec, tlvDataBasePtr, tlvDataLen, ub) ==
    IF isNull(rec)
    THEN TLVRecord(NULL)
    ELSE IF getRecordBasePtr(rec) - tlvDataBasePtr < 0
    THEN TLVRecord(NULL)
    ELSE IF getRecordBasePtr(rec) - tlvDataBasePtr + ToInt(getTotalSize(rec, ub))
                >= ToInt(tlvDataLen)
    THEN TLVRecord(NULL)
    ELSE TLVRecord(getRecordBasePtr(rec) + getTotalSize(rec, ub))

\* the addresses one getNextTLVRecord call reads
NextReads(rec, tlvDataBasePtr) ==
    IF isNull(rec) \/ getRecordBasePtr(rec) - tlvDataBasePtr < 0
    THEN {}
    ELSE TotalSizeReads(rec)

\* what a call that made no traversal leaves behind
NoScan == [n |-> 0, views |-> <<>>, reads |-> {}, calls |-> 0]

\* the while loop of getTLVRecord.  acc collects the views the loop held in
\* curRec, the addresses read and the getFirst/getNext calls made.  A
\* getNextTLVRecord that returns its own argument repeats for ever: hung.
RECURSIVE getTLVRecordLoop(_, _, _, _, _, _)
getTLVRecordLoop(curRec, recordType, tlvDataBasePtr, tlvDataLen, ub, acc) ==
    IF isNull(curRec)
    THEN [ret |-> TLVRecord(NULL), hung |-> FALSE, acc |-> acc]
    ELSE
      LET seen == [acc EXCEPT !.views = Append(@, curRec),
                              !.reads = @ \cup {getRecordBasePtr(curRec)}]
      IN  IF getType(curRec, ub) = recordType
          THEN [ret |-> curRec, hung |-> FALSE, acc |-> seen]
          ELSE
            LET nxt == getNextTLVRecord(curRec, tlvDataBasePtr, tlvDataLen, ub)
                stepped == [seen EXCEPT
                              !.reads = @ \cup NextReads(curRec, tlvDataBasePtr),
                              !.calls = @ + 1]
            IN  IF nxt = curRec
                THEN [ret |-> NULL, hung |-> TRUE, acc |-> stepped]
                ELSE getTLVRecordLoop(nxt, recordType, tlvDataBasePtr,
                                      tlvDataLen, ub, stepped)

\* getTLVRecord that starts its scan at the second record
getTLVRecord_SkipFirst(recordType, tlvDataBasePtr, tlvDataLen, ub) ==
    getTLVRecordLoop(
        getNextTLVRecord(getFirstTLVRecord(tlvDataBasePtr, tlvDataLen),
                         tlvDataBasePtr, tlvDataLen, ub),
        recordType, tlvDataBasePtr, tlvDataLen, ub,
        [NoScan EXCEPT !.calls = 2])

getTLVRecord(recordType, tlvDataBasePtr, tlvDataLen, ub) ==
    getTLVRecordLoop(getFirstTLVRecord(tlvDataBasePtr, tlvDataLen), recordType,
                     tlvDataBasePtr, tlvDataLen, ub, [NoScan EXCEPT !.calls = 1])

\* the while loop of getTLVRecordCount; acc.n is m_RecordCount
RECURSIVE getTLVRecordCountLoop(_, _, _, _, _)
getTLVRecordCountLoop(curRec, tlvDataBasePtr, tlvDataLen, ub, acc) ==
    IF isNull(curRec)
    THEN [ret |-> acc.n, hung |-> FALSE, acc |-> acc]
    ELSE
      LET nxt == getNextTLVRecord(curRec, tlvDataBasePtr, tlvDataLen, ub)
          stepped == [n |-> (acc.n + 1) % SizeMod,
                      views |-> Append(acc.views, curRec),
                      reads |-> acc.reads \cup NextReads(curRec, tlvDataBasePtr),
                      calls |-> acc.calls + 1]
      IN  IF nxt = curRec
          THEN [ret |-> stepped.n, hung |-> TRUE, acc |-> stepped]
          ELSE getTLVRecordCountLoop(nxt, tlvDataBasePtr, tlvDataLen, ub, stepped)

\* getTLVRecordCount that scans on every call and never uses the cache
getTLVRecordCount_AlwaysScan(count, tlvDataBasePtr, tlvDataLen, ub) ==
    getTLVRecordCountLoop(getFirstTLVRecord(tlvDataBasePtr, tlvDataLen),
                          tlvDataBasePtr, tlvDataLen, ub,
                          [NoScan EXCEPT !.calls = 1])

\* getTLVRecordCount that starts its scan at the second record
getTLVRecordCount_SkipFirst(count, tlvDataBasePtr, tlvDataLen, ub) ==
    IF count # NoCount
    THEN [ret |-> count, hung |-> FALSE, acc |-> [NoScan EXCEPT !.n = count]]
    ELSE getTLVRecordCountLoop(
             getNextTLVRecord(getFirstTLVRecord(tlvDataBasePtr, tlvDataLen),
                              tlvDataBasePtr, tlvDataLen, ub),
             tlvDataBasePtr, tlvDataLen, ub, [NoScan EXCEPT !.calls = 2])

getTLVRecordCount(count, tlvDataBasePtr, tlvDataLen, ub) ==
    IF count # NoCount
    THEN [ret |-> count, hung |-> FALSE, acc |-> [NoScan EXCEPT !.n = count]]
    ELSE getTLVRecordCountLoop(getFirstTLVRecord(tlvDataBasePtr, tlvDataLen),
                               tlvDataBasePtr, tlvDataLen, ub,
                               [NoScan EXCEPT !.calls = 1])

\* changeTLVRecordCount without the test for a cached count
changeTLVRecordCount_NoGuard(count, changedBy) ==
    (count + changedBy) % SizeMod

changeTLVRecordCount(count, changedBy) ==
    IF count # NoCount THEN (count + changedBy) % SizeMod ELSE count

(***************************************************************************)
(* The state machine: a caller holding one reader and one byte stream      *)
(* makes the reader's calls one after another.  last describes the latest  *)
(* call: its arguments, m_RecordCount before it (pre), what it returned    *)
(* and what it touched.  sinceCount is the value the latest                *)
(* getTLVRecordCount returned while no changeTLVRecordCount followed it,   *)
(* as a set of at most one number.  A call that never returns leaves pc at *)
(* "hung".  size is the caller's size argument (sizeof(T), a value's        *)
(* length) and error the error the call reported, "" for none.             *)
(***************************************************************************)

Bases == {NULL, BufBase}

RecAddrs == 0 .. BufBase + Len(buf) + 1

Deltas == (0 - MaxDelta) .. MaxDelta

\* the counts a changeTLVRecordCount may produce in the model
CountWindow == (0 .. MaxLen \div 2 + 1) \cup {SizeMod - 2, SizeMod - 1}

\* ub as far as the call read it
UsedUb(reads, ub) ==
    IF \E a \in reads : ~(a >= BufBase /\ a < BufBase + Len(buf)) THEN ub ELSE 0

Call(op, rec, recordType, base, len, ub, changedBy, ret, hung, acc) ==
    [op |-> op, rec |-> rec, recordType |-> recordType, base |-> base,
     len |-> len, ub |-> UsedUb(acc.reads, ub), changedBy |-> changedBy,
     pre |-> m_RecordCount, ret |-> ret, hung |-> hung,
     views |-> acc.views, reads |-> acc.reads, calls |-> acc.calls,
     size |-> 0, error |-> ""]

Init ==
    /\ buf \in Buffers \cup HugeBuffers
    /\ policy \in Policies
    /\ m_RecordCount = NoCount
    /\ pc = "idle"
    /\ sinceCount = {}
    /\ last = [op |-> "TLVRecordReader", rec |-> NULL, recordType |-> 0,
               base |-> NULL, len |-> 0, ub |-> 0, changedBy |-> 0,
               pre |-> NoCount, ret |-> NULL, hung |-> FALSE,
               views |-> <<>>, reads |-> {}, calls |-> 0,
               size |-> 0, error |-> ""]

GetFirstTLVRecord ==
    /\ pc = "idle"
    /\ \E base \in Bases :
         last' = Call("getFirstTLVRecord", NULL, 0, base, Len(buf), 0, 0,
                      getFirstTLVRecord(base, Len(buf)), FALSE,
                      [NoScan EXCEPT !.calls = 1])
    /\ UNCHANGED <<buf, policy, m_RecordCount, pc, sinceCount>>

GetNextTLVRecord ==
    /\ pc = "idle"
    /\ \E rec \in RecAddrs, ub \in Byte :
         last' = Call("getNextTLVRecord", rec, 0, BufBase, Len(buf), ub, 0,
                      getNextTLVRecord(rec, BufBase, Len(buf), ub), FALSE,
                      [NoScan EXCEPT !.reads = NextReads(rec, BufBase),
                                     !.calls = 1])
    /\ UNCHANGED <<buf, policy, m_RecordCount, pc, sinceCount>>

GetTLVRecord ==
    /\ pc = "idle"
    /\ \E recordType \in Byte, base \in Bases, ub \in Byte :
         LET r == getTLVRecord(recordType, base, Len(buf), ub)
         IN  /\ last' = Call("getTLVRecord", NULL, recordType, base, Len(buf),
                             ub, 0, r.ret, r.hung, r.acc)
             /\ pc' = IF r.hung THEN "hung" ELSE "idle"
    /\ UNCHANGED <<buf, policy, m_RecordCount, sinceCount>>

GetTLVRecordCount ==
    /\ pc = "idle"
    /\ \E base \in Bases, ub \in Byte :
         LET r == getTLVRecordCount(m_RecordCount, base, Len(buf), ub)
         IN  /\ last' = Call("getTLVRecordCount", NULL, 0, base, Len(buf), ub, 0,
                             r.ret, r.hung, r.acc)
             /\ m_RecordCount' = r.acc.n
             /\ pc' = IF r.hung THEN "hung" ELSE "idle"
             /\ sinceCount' = IF r.hung THEN {} ELSE {r.ret}
    /\ UNCHANGED <<buf, policy>>

ChangeTLVRecordCount ==
    /\ pc = "idle"
    /\ \E changedBy \in Deltas :
         /\ changeTLVRecordCount(m_RecordCount, changedBy) \in CountWindow
         /\ m_RecordCount' = changeTLVRecordCount(m_RecordCount, changedBy)
         /\ last' = Call("changeTLVRecordCount", NULL, 0, NULL, 0, 0, changedBy,
                         NULL, FALSE, NoScan)
    /\ sinceCount' = {}
    /\ UNCHANGED <<buf, policy, pc>>

Next ==
    \/ GetFirstTLVRecord
    \/ GetNextTLVRecord
    \/ GetTLVRecord
    \/ GetTLVRecordCount
    \/ ChangeTLVRecordCount

Spec == Init /\ [][Next]_vars

(***************************************************************************)
(* The calls on one record: a caller reads the value of a record of its    *)
(* stream.                                                                 *)
(***************************************************************************)
SizesOfT == 1 .. MaxSizeofT

\* the addresses of the stream's bytes
StreamAddrs == BufBase .. BufBase + Len(buf) - 1

GetValueAs ==
    /\ pc = "idle"
    /\ \E rec \in StreamAddrs, sizeofT \in SizesOfT, ub \in Byte :
         LET r == getValueAs(rec, sizeofT, ub)
         IN  last' = [Call("getValueAs", rec, 0, BufBase, Len(buf), ub, 0,
                           r.ret, FALSE, [NoScan EXCEPT !.reads = r.reads])
                        EXCEPT !.size = sizeofT]
    /\ UNCHANGED <<buf, policy, m_RecordCount, pc, sinceCount>>

\* getType() of a record of the stream or of a null record.  Through a null
\* m_Data the read is undefined: the call returns an arbitrary byte or the
\* process ends (pc = "crashed").
GetType ==
    /\ pc = "idle"
    /\ \E rec \in {NULL} \cup StreamAddrs, ub \in Byte, crashes \in BOOLEAN :
         /\ crashes => isNull(rec)
         /\ last' = Call("getType", rec, 0, BufBase, Len(buf), ub, 0,
                         IF crashes THEN 0 ELSE getType(rec, ub), FALSE,
                         [NoScan EXCEPT !.reads = {getRecordBasePtr(rec)}])
         /\ pc' = IF crashes THEN "crashed" ELSE pc
    /\ UNCHANGED <<buf, policy, m_RecordCount, sinceCount>>

\* the c'tor of a record builder for a value of valueLen bytes; ret is the
\* number of bytes allocated for m_RecValue
BuildTLVRecord ==
    /\ pc = "idle"
    /\ \E recType \in Byte, valueLen \in 0 .. ByteMod + 1 :
         LET b == TLVRecordBuilder(recType, valueLen)
         IN  last' = [Call("TLVRecordBuilder", NULL, b.m_RecType, NULL, 0, 0, 0,
                           b.allocated, FALSE, NoScan)
                        EXCEPT !.size = valueLen, !.error = b.error]
    /\ UNCHANGED <<buf, policy, m_RecordCount, pc, sinceCount>>

NextRecord ==
    \/ GetValueAs
    \/ GetType
    \/ BuildTLVRecord

SpecRecord == Init /\ [][NextRecord]_vars

\* the reader's calls and the calls on one record together
NextFull ==
    \/ Next
    \/ NextRecord

SpecFull == Init /\ [][NextFull]_vars

(***************************************************************************)
(* A caller that edits the stream and keeps the reader informed: it        *)
(* inserts or removes one whole record at a time and reports each edit     *)
(* with changeTLVRecordCount(+1) or changeTLVRecordCount(-1), as the       *)
(* comments of getTLVRecordCount and changeTLVRecordCount ask.  The stream *)
(* starts empty and stays an exact concatenation of records.  Under        *)
(* "HeaderIncluded" the length byte counts the two header bytes, so the    *)
(* length bytes of this caller's records go up to MaxValueLen + 2.         *)
(***************************************************************************)
\* the length byte of a record with n value bytes
LenByte(n) == IF policy = "HeaderExcluded" THEN n ELSE n + 2

\* the well-formed records the caller may insert
Records ==
    UNION {{<<t, LenByte(n)>> \o v : t \in Byte, v \in SeqsOfLen(n)} :
             n \in 0 .. MaxValueLen}

\* the streams of this caller grow up to the least length an int cannot hold
MaxEditLen == HugeLen

\* the offsets at which the records of the stream start, from offset o on
RECURSIVE StreamRecords(_)
StreamRecords(o) ==
    IF o >= Len(buf)
    THEN {}
    ELSE {o} \cup StreamRecords(o + getTotalSize(BufBase + o, 0))

CountStream ==
    /\ pc = "idle"
    /\ \E ub \in Byte :
         LET r == getTLVRecordCount(m_RecordCount, BufBase, Len(buf), ub)
         IN  /\ last' = Call("getTLVRecordCount", NULL, 0, BufBase, Len(buf),
                             ub, 0, r.ret, r.hung, r.acc)
             /\ m_RecordCount' = r.acc.n
             /\ pc' = IF r.hung THEN "hung" ELSE "idle"
             /\ sinceCount' = IF r.hung THEN {} ELSE {r.ret}
    /\ UNCHANGED <<buf, policy>>

\* the caller puts one record in front of a record or at the end, then
\* calls changeTLVRecordCount(1)
InsertRecord(maxLen) ==
    /\ pc = "idle"
    /\ \E o \in StreamRecords(0) \cup {Len(buf)}, r \in Records :
         /\ Len(buf) + Len(r) <= maxLen
         /\ buf' = SubSeq(buf, 1, o) \o r \o SubSeq(buf, o + 1, Len(buf))
    /\ m_RecordCount' = changeTLVRecordCount(m_RecordCount, 1)
    /\ last' = Call("changeTLVRecordCount", NULL, 0, NULL, 0, 0, 1,
                    NULL, FALSE, NoScan)
    /\ sinceCount' = {}
    /\ UNCHANGED <<policy, pc>>

\* the caller takes one record out, then calls changeTLVRecordCount(-1)
RemoveRecord ==
    /\ pc = "idle"
    /\ \E o \in StreamRecords(0) :
         buf' = SubSeq(buf, 1, o)
                  \o SubSeq(buf, o + getTotalSize(BufBase + o, 0) + 1, Len(buf))
    /\ m_RecordCount' = changeTLVRecordCount(m_RecordCount, -1)
    /\ last' = Call("changeTLVRecordCount", NULL, 0, NULL, 0, 0, -1,
                    NULL, FALSE, NoScan)
    /\ sinceCount' = {}
    /\ UNCHANGED <<policy, pc>>

InitEdit ==
    /\ Init
    /\ buf = <<>>

NextEdit ==
    \/ CountStream
    \/ InsertRecord(MaxEditLen)
    \/ RemoveRecord

SpecEdit == InitEdit /\ [][NextEdit]_vars

\* the same caller on streams whose length an int holds
NextEditBelowHugeLen ==
    \/ CountStream
    \/ InsertRecord(HugeLen - 1)
    \/ RemoveRecord

SpecEditBelowHugeLen == InitEdit /\ [][NextEditBelowHugeLen]_vars

(***************************************************************************)
(* What the properties below speak of.                                     *)
(***************************************************************************)
\* offset(r) = address(r) - base and totalSize(r) of the latest call's record
LastOffset == last.rec - last.base

LastTotalSize == getTotalSize(last.rec, last.ub)

\* the i-th view of the chain first(), next(first()), ...
RECURSIVE ChainView(_, _, _, _)
ChainView(i, base, len, ub) ==
    IF i = 0
    THEN getFirstTLVRecord(base, len)
    ELSE getNextTLVRecord(ChainView(i - 1, base, len, ub), base, len, ub)

\* the number of non-null views of a chain that ends
ChainLen(base, len, ub) ==
    Cardinality({i \in 0 .. len : ChainView(i, base, len, ub) # NULL})

Returned(op) == last.op = op /\ ~last.hung

\* a step that is not a stuttering step and ends with last.op = op is a call
\* of op: every other action leaves another name in last.op
Calls(op) == last'.op = op

(***************************************************************************)
(* C1.  getNextTLVRecord of a non-null record at offset >= 0 with          *)
(* offset + totalSize < length returns the non-null view at                *)
(* base + offset + totalSize.                                              *)
(***************************************************************************)
C1_NextAdvances ==
    (/\ last.op = "getNextTLVRecord"
     /\ last.rec # NULL
     /\ LastOffset >= 0
     /\ LastOffset + LastTotalSize < last.len)
    => (/\ last.ret # NULL
        /\ last.ret = last.base + LastOffset + LastTotalSize)

\* the same, for the lengths an int holds: below HugeLen the cast is exact
NextAdvancesBelowHugeLen == last.len < HugeLen => C1_NextAdvances

(***************************************************************************)
(* C2.  getNextTLVRecord of a non-null record with                         *)
(* offset + totalSize >= length returns a null view; a record that ends    *)
(* exactly at the end of the byte stream has no successor.                 *)
(***************************************************************************)
C2_NextNullAtEnd ==
    (/\ last.op = "getNextTLVRecord"
     /\ last.rec # NULL
     /\ LastOffset + LastTotalSize >= last.len)
    => last.ret = NULL

\* a record with its header inside the stream that ends flush with it
C2_Witness ==
    /\ last.op = "getNextTLVRecord"
    /\ last.rec # NULL
    /\ LastOffset >= 0
    /\ InStream(last.rec + 1, last.base, last.len)
    /\ LastOffset + LastTotalSize = last.len
    /\ last.ret = NULL

(***************************************************************************)
(* C3.  A getTLVRecord or getTLVRecordCount traversal reads only bytes of  *)
(* [base, base + length), and every non-null view it holds has its 2-byte  *)
(* header inside the stream: offset + 2 <= length.                         *)
(***************************************************************************)
C3_HeaderInBounds ==
    (last.op \in {"getTLVRecord", "getTLVRecordCount"})
    => (/\ \A a \in last.reads : InStream(a, last.base, last.len)
        /\ \A i \in 1 .. Len(last.views) :
               last.views[i] - last.base + 2 <= last.len)

(***************************************************************************)
(* C4.  A getTLVRecord call that returns, returns the earliest view of the *)
(* chain first(), next(first()), ... whose type is recordType, and returns *)
(* a null view exactly when no view of the chain has that type.            *)
(***************************************************************************)
C4_FindEarliest ==
    Returned("getTLVRecord")
    => LET View(i) == ChainView(i, last.base, last.len, last.ub)
           Match(i) == /\ View(i) # NULL
                       /\ getType(View(i), last.ub) = last.recordType
       IN  /\ last.ret # NULL =>
                \E i \in 0 .. last.len :
                    /\ Match(i)
                    /\ View(i) = last.ret
                    /\ \A j \in 0 .. i - 1 : ~Match(j)
           /\ last.ret = NULL => \A i \in 0 .. last.len : ~Match(i)

\* the record returned is not the first one, and a later record of the
\* chain carries the same type
C4_Witness ==
    /\ Returned("getTLVRecord")
    /\ last.ret # NULL
    /\ last.ret > last.base
    /\ \E i \in 0 .. last.len :
          LET v == ChainView(i, last.base, last.len, last.ub)
          IN  v # NULL /\ v > last.ret /\ getType(v, last.ub) = last.recordType

(***************************************************************************)
(* C5.  Under the policy totalSize = 2 + declaredLength, on a byte stream  *)
(* that is an exact concatenation of n >= 1 well-formed records, a fresh   *)
(* reader counts n records, getTLVRecord returns the earliest record of    *)
(* the wanted type (a null view when there is none), and getNextTLVRecord  *)
(* of the last record returns a null view.                                 *)
(***************************************************************************)
\* the offsets at which the records of buf start, when buf is an exact
\* concatenation of records of size 2 + recordLen from offset o on; else {-1}
RECURSIVE RecordOffsets(_)
RecordOffsets(o) ==
    IF o = Len(buf) THEN {}
    ELSE IF o + 2 > Len(buf) \/ o + 2 + buf[o + 2] > Len(buf) THEN {-1}
    ELSE {o} \cup RecordOffsets(o + 2 + buf[o + 2])

WellFormed == Len(buf) > 0 /\ -1 \notin RecordOffsets(0)

\* the offsets of the records of type t
OffsetsOfType(t) == {o \in RecordOffsets(0) : buf[o + 1] = t}

Least(S) == CHOOSE x \in S : \A y \in S : x <= y

Greatest(S) == CHOOSE x \in S : \A y \in S : x >= y

C5_WellFormedWalk ==
    (policy = "HeaderExcluded" /\ WellFormed /\ last.base = BufBase)
    => /\ (last.op = "getTLVRecordCount" /\ last.pre = NoCount)
            => (~last.hung /\ last.ret = Cardinality(RecordOffsets(0)))
       /\ last.op = "getTLVRecord"
            => /\ ~last.hung
               /\ last.ret = IF OffsetsOfType(last.recordType) = {}
                             THEN NULL
                             ELSE BufBase + Least(OffsetsOfType(last.recordType))
       /\ (/\ last.op = "getNextTLVRecord"
           /\ last.rec = BufBase + Greatest(RecordOffsets(0)))
            => last.ret = NULL

\* the same, for the lengths an int holds
WellFormedWalkBelowHugeLen == Len(buf) < HugeLen => C5_WellFormedWalk

(***************************************************************************)
(* C6.  On a reader that holds no cached count, a getTLVRecordCount call   *)
(* that returns, returns the number of non-null views of the chain         *)
(* first(), next(first()), ... (0 for an empty stream) and leaves that     *)
(* number in m_RecordCount.                                                *)
(***************************************************************************)
C6_CountIsChainLength ==
    (Returned("getTLVRecordCount") /\ last.pre = NoCount)
    => /\ last.ret = ChainLen(last.base, last.len, last.ub)
       /\ m_RecordCount = last.ret
       /\ last.len = 0 => last.ret = 0

\* a scan that counted more than one record
C6_Witness ==
    /\ Returned("getTLVRecordCount")
    /\ last.pre = NoCount
    /\ last.ret >= 2
    /\ m_RecordCount = last.ret

(***************************************************************************)
(* C7.  A getTLVRecordCount call made after an earlier one, with no        *)
(* changeTLVRecordCount between the two, returns what the earlier call     *)
(* returned and calls neither getFirstTLVRecord nor getNextTLVRecord,      *)
(* whatever byte stream it is given.                                       *)
(***************************************************************************)
C7_SecondCountCached ==
    [][(Calls("getTLVRecordCount") /\ sinceCount # {})
          => (/\ last'.ret \in sinceCount
              /\ ~last'.hung
              /\ last'.calls = 0
              /\ last'.reads = {})]_vars

\* a repeated count that returns the cached number for another stream (a
\* NULL one, whose scan would count 0)
C7_Witness ==
    /\ Returned("getTLVRecordCount")
    /\ last.pre # NoCount
    /\ last.ret \in sinceCount
    /\ last.calls = 0
    /\ last.base = NULL
    /\ last.ret > 0

(***************************************************************************)
(* C8.  With a cached count c, changeTLVRecordCount(delta) followed by     *)
(* getTLVRecordCount returns c + delta (as a size_t) without traversing    *)
(* the stream, for positive and for negative deltas.                       *)
(***************************************************************************)
C8_CountAfterChange ==
    [][(/\ Calls("getTLVRecordCount")
        /\ last.op = "changeTLVRecordCount"
        /\ last.pre # NoCount)
          => (/\ last'.ret = (last.pre + last.changedBy) % SizeMod
              /\ last'.calls = 0)]_vars

(***************************************************************************)
(* C9.  With no cached count, changeTLVRecordCount(delta) leaves the       *)
(* reader as it was for every delta, and the getTLVRecordCount that        *)
(* follows scans the stream and returns the scanned number, no delta       *)
(* applied.                                                                *)
(***************************************************************************)
C9_ChangeWithoutCache ==
    [][/\ (Calls("changeTLVRecordCount") /\ m_RecordCount = NoCount)
            => (m_RecordCount' = NoCount /\ pc' = pc)
       /\ (/\ Calls("getTLVRecordCount")
           /\ last.op = "changeTLVRecordCount"
           /\ last.pre = NoCount
           /\ ~last'.hung)
            => (/\ last'.calls >= 1
                /\ last'.ret = ChainLen(last'.base, last'.len, last'.ub)
                /\ m_RecordCount' = last'.ret)]_vars

\* a non-zero delta was reported to a reader without a cached count
C9_Witness ==
    /\ last.op = "changeTLVRecordCount"
    /\ last.pre = NoCount
    /\ last.changedBy # 0
    /\ m_RecordCount = NoCount

(***************************************************************************)
(* C10.  getFirstTLVRecord returns a null view for length 0, and for every *)
(* other length the view at base, reading no byte of the stream; for a     *)
(* NULL base the view is null whatever the length.                         *)
(***************************************************************************)
C10_FirstIsBase ==
    last.op = "getFirstTLVRecord"
    => /\ last.len = 0 => last.ret = NULL
       /\ last.len > 0 => last.ret = last.base
       /\ last.base = NULL => last.ret = NULL
       /\ last.reads = {}

C10_Witness ==
    /\ last.op = "getFirstTLVRecord"
    /\ last.len > 0
    /\ last.base # NULL
    /\ last.ret = last.base

(***************************************************************************)
(* C11.  getValueAs<T>() of a record whose getDataSize() is below          *)
(* sizeof(T) returns 0 and reads no byte of the value; otherwise it        *)
(* returns the first sizeof(T) bytes of the value and reads no byte after  *)
(* them.                                                                   *)
(***************************************************************************)
C11_ValueAs ==
    last.op = "getValueAs"
    => LET dataSize == getDataSize(last.rec, last.ub)
       IN  /\ dataSize < last.size
                => /\ last.ret = 0
                   /\ \A a \in last.reads : a < recordValue(last.rec, 0)
           /\ dataSize >= last.size
                => /\ \A i \in 0 .. last.size - 1 :
                        (last.ret \div ByteMod ^ i) % ByteMod
                            = ReadByte(recordValue(last.rec, i), last.ub)
                   /\ last.ret < ByteMod ^ last.size
                   /\ \A a \in last.reads : a < recordValue(last.rec, last.size)

\* a value too short for T whose first byte, in the stream, is not 0
C11_Witness ==
    /\ last.op = "getValueAs"
    /\ getDataSize(last.rec, last.ub) < last.size
    /\ getDataSize(last.rec, last.ub) > 0
    /\ InStream(recordValue(last.rec, 0), last.base, last.len)
    /\ ReadByte(recordValue(last.rec, 0), last.ub) # 0
    /\ last.ret = 0

(***************************************************************************)
(* C12.  Constructing a record builder from a value longer than a byte can *)
(* count (256 bytes, say) is rejected with ValueTooLarge and allocates     *)
(* nothing; the length is never reduced modulo 256.                        *)
(***************************************************************************)
C12_ValueTooLarge ==
    (last.op = "TLVRecordBuilder" /\ last.size > MaxByte)
    => (last.error = "ValueTooLarge" /\ last.ret = 0)

(***************************************************************************)
(* C13.  getType() of a null record reports a precondition violation and   *)
(* does not read through the null address; and getNextTLVRecord,           *)
(* getTLVRecord and getTLVRecordCount never call getType() or              *)
(* getTotalSize() on a null record, that is, never read the type or the    *)
(* length byte of address NULL.                                            *)
(***************************************************************************)
C13_NullRecord ==
    /\ (last.op = "getType" /\ last.rec = NULL)
          => (last.error = "PreconditionViolation" /\ NULL \notin last.reads)
    /\ last.op \in {"getNextTLVRecord", "getTLVRecord", "getTLVRecordCount"}
          => last.reads \cap {NULL, NULL + 1} = {}

\* the reader's half of C13 alone
ReaderNeverReadsNull ==
    last.op \in {"getNextTLVRecord", "getTLVRecord", "getTLVRecordCount"}
    => last.reads \cap {NULL, NULL + 1} = {}

(***************************************************************************)
(* C14.  Whether getNextTLVRecord returns a null view is decided as by the *)
(* comparison offset + totalSize >= length over the unbounded integers:    *)
(* neither the sum nor the casts to int wrap or truncate.                  *)
(***************************************************************************)
C14_ExactComparison ==
    (/\ last.op = "getNextTLVRecord"
     /\ last.rec # NULL
     /\ LastOffset >= 0)
    => (last.ret = NULL <=> LastOffset + LastTotalSize >= last.len)

(***************************************************************************)
(* C15.  getTLVRecord and getTLVRecordCount return on every stream and     *)
(* under every length policy, a total size of 0 included: a                *)
(* getNextTLVRecord step returns a null view or a view at a strictly       *)
(* greater offset than its argument.                                       *)
(***************************************************************************)
C15_Terminates ==
    /\ last.op \in {"getTLVRecord", "getTLVRecordCount"} => ~last.hung
    /\ (last.op = "getNextTLVRecord" /\ last.ret # NULL)
          => last.ret - last.base > LastOffset

(***************************************************************************)
(* C16.  The non-null view a getTLVRecord call returns, and every view a   *)
(* getTLVRecordCount scan counts, lies wholly inside the stream:           *)
(* offset + totalSize <= length.                                           *)
(***************************************************************************)
C16_RecordsInsideStream ==
    LET Inside(v) ==
            v - last.base + getTotalSize(v, last.ub) <= last.len
    IN  /\ (Returned("getTLVRecord") /\ last.ret # NULL) => Inside(last.ret)
        /\ Returned("getTLVRecordCount")
              => \A i \in 1 .. Len(last.views) : Inside(last.views[i])

(***************************************************************************)
(* C17.  Once m_RecordCount holds a count, no changeTLVRecordCount call    *)
(* puts the reader back to "not counted": the count stays other than       *)
(* (size_t)-1, also when a delta takes a count of 0 to -1.                 *)
(***************************************************************************)
C17_CacheStays ==
    [][(Calls("changeTLVRecordCount") /\ m_RecordCount # NoCount)
          => m_RecordCount' # NoCount]_vars

(***************************************************************************)
(* C19.  getNextTLVRecord of a null record returns a null view without     *)
(* calling getTotalSize; of a record whose address precedes base it        *)
(* returns a null view; and it never returns a view below base.            *)
(***************************************************************************)
C19_NextRejectsNullAndLow ==
    last.op = "getNextTLVRecord"
    => /\ last.rec = NULL => (last.ret = NULL /\ last.reads = {})
       /\ (last.rec # NULL /\ LastOffset < 0) => last.ret = NULL
       /\ last.ret # NULL => last.ret >= last.base

\* a record one byte before the stream, such that the end-of-stream test
\* alone would have let it through
C19_Witness ==
    /\ last.op = "getNextTLVRecord"
    /\ last.rec # NULL
    /\ LastOffset < 0
    /\ LastOffset + LastTotalSize < last.len
    /\ last.ret = NULL

(***************************************************************************)
(* C18.  When the caller reports every insertion of one well-formed record *)
(* with changeTLVRecordCount(+1) and every removal with                    *)
(* changeTLVRecordCount(-1), each getTLVRecordCount call returns the       *)
(* number a fresh reader computes by scanning the stream as it is now.     *)
(***************************************************************************)
\* what a reader just constructed returns for the stream
FreshCount == getTLVRecordCount(NoCount, BufBase, Len(buf), 0).ret

C18_CountTracksEdits ==
    Returned("getTLVRecordCount") => last.ret = FreshCount

\* C18_CountTracksEdits holds under SpecEditBelowHugeLen: the counts differ
\* only once the stream has reached a length an int cannot hold

====
